---- MODULE Spec2Model ----
(***************************************************************************)
(* Shape-level model of imagenet/model_inception.py (the Inception v3/v4   *)
(* network assembler) and of tools/process_imagenet_data/                  *)
(* check_record_data.py (the record decoder).                              *)
(*                                                                         *)
(* A tensor is [id, dims]: an identity and its shape, laid out in the      *)
(* builder's data format.  Floats of the record format are written in      *)
(* tenths (0.1 is 1), the dropout keep probability likewise (0.8 is 8).    *)
(***************************************************************************)
EXTENDS Integers, Sequences, FiniteSets, TLC

VARIABLES obj, pc, cnn, step, trace, module_sizes, col_out, result, error,
          example, decoded, bbox

vars == <<obj, pc, cnn, step, trace, module_sizes, col_out, result, error,
          example, decoded, bbox>>

netvars == <<obj, pc, cnn, step, trace, module_sizes, col_out, result, error>>
recvars == <<example, decoded, bbox>>

(***************************************************************************)
(* Bounds and input sets.                                                  *)
(***************************************************************************)
MaxBatch == 2
MaxBoxes == 2

\* 299 is the documented input size; 331 completes with a larger final map,
\* 75 is too small for the v3 head, 15 is too small for either stem.
ImageSizes == {15, 75, 299, 331}
DataFormats == {"NCHW", "NHWC"}
Models == {"inception3", "inception4", "inception5"}

(***************************************************************************)
(* Helpers.                                                                *)
(***************************************************************************)
Last(s) == s[Len(s)]

RECURSIVE SumSeq(_)
SumSeq(s) == IF Len(s) = 0 THEN 0 ELSE s[1] + SumSeq(Tail(s))

RECURSIVE Product(_)
Product(s) == IF Len(s) = 0 THEN 1 ELSE s[1] * Product(Tail(s))

RECURSIVE Repeat(_, _)
Repeat(n, x) == IF n = 0 THEN <<>> ELSE <<x>> \o Repeat(n - 1, x)

IsPrefix(s, t) == Len(s) <= Len(t) /\ \A i \in 1..Len(s) : s[i] = t[i]

NoTensor == [id |-> 0, dims |-> <<>>]

\* position of each logical axis in a 4-D tensor of the given data format
Axis(fmt) == IF fmt = "NCHW" THEN [n |-> 1, c |-> 2, h |-> 3, w |-> 4]
                             ELSE [n |-> 1, h |-> 2, w |-> 3, c |-> 4]

MkDims(fmt, n, h, w, c) == IF fmt = "NCHW" THEN <<n, c, h, w>> ELSE <<n, h, w, c>>

DimN(fmt, t) == t.dims[Axis(fmt).n]
DimH(fmt, t) == t.dims[Axis(fmt).h]
DimW(fmt, t) == t.dims[Axis(fmt).w]
DimC(fmt, t) == t.dims[Axis(fmt).c]

(***************************************************************************)
(* imagenet/model_inception.py: the model list and the constructor.        *)
(***************************************************************************)
inception_list == {"inception3", "inception4"}

NoObject == [constructed |-> FALSE, auxiliary |-> FALSE, image_size |-> 0,
             data_format |-> "", model |-> "", image_shape |-> <<>>]

\* Inception.__init__: the InvalidArgumentError for an unknown model is
\* built and dropped (there is no raise), so every argument value yields an
\* object.
Inception_init(image_size, data_format, batch_size, model) ==
    [constructed |-> TRUE,
     auxiliary   |-> FALSE,
     image_size  |-> image_size,
     data_format |-> data_format,
     model       |-> model,
     image_shape |-> IF data_format = "NCHW"
                     THEN <<batch_size, 3, image_size, image_size>>
                     ELSE <<batch_size, image_size, image_size, 3>>]

(***************************************************************************)
(* The layer builder (convnet_builder.ConvNetBuilder).                     *)
(***************************************************************************)
NoBuilder == [top_layer |-> NoTensor, top_size |-> 0,
              aux_top_layer |-> NoTensor, aux_top_size |-> 0,
              use_batch_norm |-> FALSE, data_format |-> "", count |-> 0,
              scope |-> "primary",
              saved_top_layer |-> NoTensor, saved_top_size |-> 0]

ConvNetBuilder(images, nchan, data_format) ==
    [NoBuilder EXCEPT !.top_layer = images, !.top_size = nchan,
                      !.data_format = data_format, !.count = images.id]

Ok(b) == [ok |-> TRUE, err |-> "", cnn |-> b]
Err(b, e) == [ok |-> FALSE, err |-> e, cnn |-> b]

NewTop(b, dims, size) ==
    [b EXCEPT !.count = @ + 1,
              !.top_layer = [id |-> b.count + 1, dims |-> dims],
              !.top_size = size]

\* output extent of a window operation along one axis; 0 when the window
\* does not fit (the graph construction then fails)
OutDim(n, k, s, mode) ==
    IF mode = "SAME" THEN (n + s - 1) \div s
    ELSE IF n < k THEN 0 ELSE ((n - k) \div s) + 1

\* ('conv', out, kh, kw [, dh, dw [, mode]])
ConvArgs(op) == [out  |-> op[2], kh |-> op[3], kw |-> op[4],
                 dh   |-> IF Len(op) >= 5 THEN op[5] ELSE 1,
                 dw   |-> IF Len(op) >= 6 THEN op[6] ELSE 1,
                 mode |-> IF Len(op) >= 7 THEN op[7] ELSE "SAME"]

\* ('mpool' | 'apool', kh, kw [, dh, dw [, mode]])
PoolArgs(op) == [kh |-> op[2], kw |-> op[3],
                 dh   |-> IF Len(op) >= 4 THEN op[4] ELSE 1,
                 dw   |-> IF Len(op) >= 5 THEN op[5] ELSE 1,
                 mode |-> IF Len(op) >= 6 THEN op[6] ELSE "SAME"]

Window(b, a, size) ==
    LET fmt == b.data_format
        t   == b.top_layer
        h   == OutDim(DimH(fmt, t), a.kh, a.dh, a.mode)
        w   == OutDim(DimW(fmt, t), a.kw, a.dw, a.mode)
    IN  IF Len(t.dims) # 4 THEN Err(b, "InvalidShape")
        ELSE IF a.mode \notin {"SAME", "VALID"} THEN Err(b, "UnknownOperation")
        ELSE IF h < 1 \/ w < 1 THEN Err(b, "InvalidShape")
        ELSE Ok(NewTop(b, MkDims(fmt, DimN(fmt, t), h, w, size), size))

conv(b, op) == Window(b, ConvArgs(op), ConvArgs(op).out)

pool(b, op) == Window(b, PoolArgs(op), b.top_size)

\* reshape([-1, width]): a view with the same element count
reshape(b, width) ==
    LET n == Product(b.top_layer.dims)
    IN  IF n % width # 0 THEN Err(b, "InvalidShape")
        ELSE Ok(NewTop(b, <<n \div width, width>>, b.top_size))

spatial_mean(b) ==
    LET fmt == b.data_format
        t   == b.top_layer
    IN  IF Len(t.dims) # 4 THEN Err(b, "InvalidShape")
        ELSE Ok(NewTop(b, <<DimN(fmt, t), DimC(fmt, t)>>, b.top_size))

dropout(b, keep_prob) == Ok(NewTop(b, b.top_layer.dims, b.top_size))


\* switch_to_aux_top_layer: the scoped swap to the auxiliary tensor
enter_aux(b) ==
    IF b.scope = "aux" \/ b.aux_top_layer = NoTensor
    THEN Err(b, "InvalidBuildState")
    ELSE Ok([b EXCEPT !.saved_top_layer = b.top_layer,
                      !.saved_top_size  = b.top_size,
                      !.top_layer = b.aux_top_layer,
                      !.top_size  = b.aux_top_size,
                      !.scope = "aux"])

\* leaving the scope, on every exit path
exit_aux(b) ==
    [b EXCEPT !.aux_top_layer = b.top_layer,
              !.aux_top_size  = b.top_size,
              !.top_layer = b.saved_top_layer,
              !.top_size  = b.saved_top_size,
              !.scope = "primary"]

\* variant: an exception leaves the auxiliary scope open
Unwind_none(b) == b

\* the builder as an exception leaves it: an open auxiliary scope unwinds
Unwind(b) == IF b.scope = "aux" THEN exit_aux(b) ELSE b

(***************************************************************************)
(* The module composer (ConvNetBuilder.inception_module).                  *)
(***************************************************************************)
NoColumn == [layers |-> <<>>, sizes |-> <<>>]

ColLayer(b, op, l, prev) ==
    IF op[1] = "share"
    THEN IF l > Len(prev.layers) THEN Err(b, "ShareIndexOutOfRange")
         ELSE Ok([b EXCEPT !.top_layer = prev.layers[l],
                           !.top_size  = prev.sizes[l]])
    ELSE IF op[1] = "conv" THEN conv(b, op)
    ELSE IF op[1] \in {"mpool", "apool"} THEN pool(b, op)
    ELSE Err(b, "UnknownOperation")

\* the composer's loop state: the builder, the layers and channel counts
\* recorded per column, and the position (column c, layer l) to run next
ModuleStart(b) ==
    [cnn |-> b, col_layers |-> <<>>, col_layer_sizes |-> <<>>,
     c |-> 1, l |-> 1, err |-> ""]

\* one pass of the inner loop: the layer at (c, l); the first layer of every
\* column starts from the module's input
ModuleLayer(m, cols, input_layer, in_size) ==
    LET b      == IF m.l = 1
                  THEN [m.cnn EXCEPT !.top_layer = input_layer, !.top_size = in_size]
                  ELSE m.cnn
        layers == IF m.l = 1 THEN Append(m.col_layers, <<>>) ELSE m.col_layers
        sizes  == IF m.l = 1 THEN Append(m.col_layer_sizes, <<>>)
                             ELSE m.col_layer_sizes
        prev   == IF m.c = 1 THEN NoColumn
                  ELSE [layers |-> m.col_layers[m.c - 1],
                        sizes  |-> m.col_layer_sizes[m.c - 1]]
        r      == ColLayer(b, cols[m.c][m.l], m.l, prev)
        last   == m.l = Len(cols[m.c])
    IN  IF ~r.ok
        THEN [m EXCEPT !.err = r.err]
        ELSE [cnn |-> r.cnn,
              col_layers |-> [layers EXCEPT ![m.c] = Append(@, r.cnn.top_layer)],
              col_layer_sizes |-> [sizes EXCEPT ![m.c] = Append(@, r.cnn.top_size)],
              c |-> IF last THEN m.c + 1 ELSE m.c,
              l |-> IF last THEN 1 ELSE m.l + 1,
              err |-> ""]

\* the two nested loops over columns and layers.  The loop state is bound
\* through a singleton set so that it is evaluated once per pass.
RECURSIVE RunModule(_, _, _, _)
RunModule(m, cols, input_layer, in_size) ==
    CHOOSE out \in
      { IF mv.err # "" \/ mv.c > Len(cols) THEN mv
        ELSE IF Len(cols[mv.c]) = 0 THEN [mv EXCEPT !.err = "EmptyBranch"]
        ELSE RunModule(ModuleLayer(mv, cols, input_layer, in_size),
                       cols, input_layer, in_size)
        : mv \in {m} } : TRUE

SameSpatial(fmt, ts) ==
    \A i, j \in 1..Len(ts) :
        /\ DimH(fmt, ts[i]) = DimH(fmt, ts[j])
        /\ DimW(fmt, ts[i]) = DimW(fmt, ts[j])

ModuleResult(b, cols, r) ==
    LET fmt   == b.data_format
        lasts == [c \in 1..Len(cols) |-> Last(r.col_layers[c])]
        size  == SumSeq([c \in 1..Len(cols) |-> Last(r.col_layer_sizes[c])])
    IN  IF r.err # ""
        THEN [ok |-> FALSE, err |-> r.err, cnn |-> b, concat |-> <<>>]
        ELSE IF Len(cols) = 0
        THEN [ok |-> FALSE, err |-> "EmptyBranch", cnn |-> b, concat |-> <<>>]
        ELSE IF ~SameSpatial(fmt, lasts)
        THEN [ok |-> FALSE, err |-> "ShapeMismatch", cnn |-> b, concat |-> lasts]
        ELSE [ok |-> TRUE, err |-> "",
              cnn |-> NewTop(r.cnn, MkDims(fmt, DimN(fmt, lasts[1]),
                                           DimH(fmt, lasts[1]),
                                           DimW(fmt, lasts[1]), size), size),
              concat |-> lasts]

\* result: the builder after the module and the tensors handed to concat
inception_module(b, name, cols) ==
    CHOOSE out \in
      { ModuleResult(b, cols, r) :
          r \in {RunModule(ModuleStart(b), cols, b.top_layer, b.top_size)} } : TRUE

(***************************************************************************)
(* Inception v3: the modules and the build sequence.                       *)
(***************************************************************************)
Module(name, cols) == <<"module", name, cols>>

\* variant: the 5x5 column ends in 48 channels
inception_v3_a_narrow(n) ==
    Module("incept_v3_a",
      << << <<"conv", 64, 1, 1>> >>,
         << <<"conv", 48, 1, 1>>, <<"conv", 48, 5, 5>> >>,
         << <<"conv", 64, 1, 1>>, <<"conv", 96, 3, 3>>, <<"conv", 96, 3, 3>> >>,
         << <<"apool", 3, 3, 1, 1, "SAME">>, <<"conv", n, 1, 1>> >> >>)

inception_v3_a(n) ==
    Module("incept_v3_a",
      << << <<"conv", 64, 1, 1>> >>,
         << <<"conv", 48, 1, 1>>, <<"conv", 64, 5, 5>> >>,
         << <<"conv", 64, 1, 1>>, <<"conv", 96, 3, 3>>, <<"conv", 96, 3, 3>> >>,
         << <<"apool", 3, 3, 1, 1, "SAME">>, <<"conv", n, 1, 1>> >> >>)

inception_v3_b ==
    Module("incept_v3_b",
      << << <<"conv", 384, 3, 3, 2, 2, "VALID">> >>,
         << <<"conv", 64, 1, 1>>, <<"conv", 96, 3, 3>>,
            <<"conv", 96, 3, 3, 2, 2, "VALID">> >>,
         << <<"mpool", 3, 3, 2, 2, "VALID">> >> >>)

inception_v3_c(n) ==
    Module("incept_v3_c",
      << << <<"conv", 192, 1, 1>> >>,
         << <<"conv", n, 1, 1>>, <<"conv", n, 1, 7>>, <<"conv", 192, 7, 1>> >>,
         << <<"conv", n, 1, 1>>, <<"conv", n, 7, 1>>, <<"conv", n, 1, 7>>,
            <<"conv", n, 7, 1>>, <<"conv", 192, 1, 7>> >>,
         << <<"apool", 3, 3, 1, 1, "SAME">>, <<"conv", 192, 1, 1>> >> >>)

\* variant: the first column's reduction is padded
inception_v3_d_same ==
    Module("incept_v3_d",
      << << <<"conv", 192, 1, 1>>, <<"conv", 320, 3, 3, 2, 2, "SAME">> >>,
         << <<"conv", 192, 1, 1>>, <<"conv", 192, 1, 7>>, <<"conv", 192, 7, 1>>,
            <<"conv", 192, 3, 3, 2, 2, "VALID">> >>,
         << <<"mpool", 3, 3, 2, 2, "VALID">> >> >>)

inception_v3_d ==
    Module("incept_v3_d",
      << << <<"conv", 192, 1, 1>>, <<"conv", 320, 3, 3, 2, 2, "VALID">> >>,
         << <<"conv", 192, 1, 1>>, <<"conv", 192, 1, 7>>, <<"conv", 192, 7, 1>>,
            <<"conv", 192, 3, 3, 2, 2, "VALID">> >>,
         << <<"mpool", 3, 3, 2, 2, "VALID">> >> >>)

\* variant: the first sharing column is declared first
inception_v3_e_rotated(pooltype) ==
    Module("incept_v3_e",
      << << <<"share">>, <<"conv", 384, 3, 1>> >>,
         << <<"conv", 320, 1, 1>> >>,
         << <<"conv", 384, 1, 1>>, <<"conv", 384, 1, 3>> >>,
         << <<"conv", 448, 1, 1>>, <<"conv", 384, 3, 3>>, <<"conv", 384, 1, 3>> >>,
         << <<"share">>, <<"share">>, <<"conv", 384, 3, 1>> >>,
         << <<IF pooltype = "max" THEN "mpool" ELSE "apool", 3, 3, 1, 1, "SAME">>,
            <<"conv", 192, 1, 1>> >> >>)

inception_v3_e(pooltype) ==
    Module("incept_v3_e",
      << << <<"conv", 320, 1, 1>> >>,
         << <<"conv", 384, 1, 1>>, <<"conv", 384, 1, 3>> >>,
         << <<"share">>, <<"conv", 384, 3, 1>> >>,
         << <<"conv", 448, 1, 1>>, <<"conv", 384, 3, 3>>, <<"conv", 384, 1, 3>> >>,
         << <<"share">>, <<"share">>, <<"conv", 384, 3, 1>> >>,
         << <<IF pooltype = "max" THEN "mpool" ELSE "apool", 3, 3, 1, 1, "SAME">>,
            <<"conv", 192, 1, 1>> >> >>)

\* incept_v3_aux: capture the top tensor, then build the head inside the
\* auxiliary scope
incept_v3_aux ==
    << <<"aux_enter">>,
       <<"apool", 5, 5, 3, 3, "VALID">>,
       <<"conv", 128, 1, 1, 1, 1, "SAME">>,
       <<"conv", 768, 5, 5, 1, 1, "VALID">>,
       <<"reshape", 768>>,
       <<"aux_exit">> >>

inception3_stem ==
    << <<"conv", 32, 3, 3, 2, 2, "VALID">>,
       <<"conv", 32, 3, 3, 1, 1, "VALID">>,
       <<"conv", 64, 3, 3, 1, 1, "SAME">>,
       <<"mpool", 3, 3, 2, 2, "VALID">>,
       <<"conv", 80, 1, 1, 1, 1, "VALID">>,
       <<"conv", 192, 3, 3, 1, 1, "VALID">>,
       <<"mpool", 3, 3, 2, 2, "VALID">> >>

inception3_mixed(auxiliary) ==
    << inception_v3_a(32), inception_v3_a(64), inception_v3_a(64),
       inception_v3_b,
       inception_v3_c(128), inception_v3_c(160), inception_v3_c(160),
       inception_v3_c(192) >>
    \o (IF auxiliary THEN incept_v3_aux ELSE <<>>)
    \o << inception_v3_d, inception_v3_e("avg"), inception_v3_e("max") >>

\* variant: a 7x7 final pool
inception3_head_small ==
    << <<"apool", 7, 7, 1, 1, "VALID">>, <<"reshape", 2048>> >>

inception3_head ==
    << <<"apool", 8, 8, 1, 1, "VALID">>, <<"reshape", 2048>> >>

construct_inception3(auxiliary) ==
    inception3_stem \o inception3_mixed(auxiliary) \o inception3_head

(***************************************************************************)
(* Inception v4: the modules and the build sequence.                       *)
(***************************************************************************)
inception_v4_a ==
    Module("incept_v4_a",
      << << <<"apool", 3, 3, 1, 1, "SAME">>, <<"conv", 96, 1, 1>> >>,
         << <<"conv", 96, 1, 1>> >>,
         << <<"conv", 64, 1, 1>>, <<"conv", 96, 3, 3>> >>,
         << <<"conv", 64, 1, 1>>, <<"conv", 96, 3, 3>>, <<"conv", 96, 3, 3>> >> >>)

inception_v4_b ==
    Module("incept_v4_b",
      << << <<"apool", 3, 3, 1, 1, "SAME">>, <<"conv", 128, 1, 1>> >>,
         << <<"conv", 384, 1, 1>> >>,
         << <<"conv", 192, 1, 1>>, <<"conv", 224, 1, 7>>, <<"conv", 256, 7, 1>> >>,
         << <<"conv", 192, 1, 1>>, <<"conv", 192, 1, 7>>, <<"conv", 224, 7, 1>>,
            <<"conv", 224, 1, 7>>, <<"conv", 256, 7, 1>> >> >>)

\* variant: the last column ends in 512 channels
inception_v4_c_wide ==
    Module("incept_v4_c",
      << << <<"apool", 3, 3, 1, 1, "SAME">>, <<"conv", 256, 1, 1>> >>,
         << <<"conv", 256, 1, 1>> >>,
         << <<"conv", 384, 1, 1>>, <<"conv", 256, 1, 3>> >>,
         << <<"share">>, <<"conv", 256, 3, 1>> >>,
         << <<"conv", 384, 1, 1>>, <<"conv", 448, 1, 3>>, <<"conv", 512, 3, 1>>,
            <<"conv", 256, 3, 1>> >>,
         << <<"share">>, <<"share">>, <<"share">>, <<"conv", 512, 1, 3>> >> >>)

inception_v4_c ==
    Module("incept_v4_c",
      << << <<"apool", 3, 3, 1, 1, "SAME">>, <<"conv", 256, 1, 1>> >>,
         << <<"conv", 256, 1, 1>> >>,
         << <<"conv", 384, 1, 1>>, <<"conv", 256, 1, 3>> >>,
         << <<"share">>, <<"conv", 256, 3, 1>> >>,
         << <<"conv", 384, 1, 1>>, <<"conv", 448, 1, 3>>, <<"conv", 512, 3, 1>>,
            <<"conv", 256, 3, 1>> >>,
         << <<"share">>, <<"share">>, <<"share">>, <<"conv", 256, 1, 3>> >> >>)

inception_v4_sa ==
    Module("incept_v4_sa",
      << << <<"mpool", 3, 3, 2, 2, "VALID">> >>,
         << <<"conv", 96, 3, 3, 2, 2, "VALID">> >> >>)

inception_v4_sb ==
    Module("incept_v4_sb",
      << << <<"conv", 64, 1, 1>>, <<"conv", 96, 3, 3, 1, 1, "VALID">> >>,
         << <<"conv", 64, 1, 1>>, <<"conv", 64, 7, 1>>, <<"conv", 64, 1, 7>>,
            <<"conv", 96, 3, 3, 1, 1, "VALID">> >> >>)

inception_v4_sc ==
    Module("incept_v4_sc",
      << << <<"conv", 192, 3, 3, 2, 2, "VALID">> >>,
         << <<"mpool", 3, 3, 2, 2, "VALID">> >> >>)

inception_v4_ra(k, l, m, n) ==
    Module("incept_v4_ra",
      << << <<"mpool", 3, 3, 2, 2, "VALID">> >>,
         << <<"conv", n, 3, 3, 2, 2, "VALID">> >>,
         << <<"conv", k, 1, 1>>, <<"conv", l, 3, 3>>,
            <<"conv", m, 3, 3, 2, 2, "VALID">> >> >>)

inception_v4_rb ==
    Module("incept_v4_rb",
      << << <<"mpool", 3, 3, 2, 2, "VALID">> >>,
         << <<"conv", 192, 1, 1>>, <<"conv", 192, 3, 3, 2, 2, "VALID">> >>,
         << <<"conv", 256, 1, 1>>, <<"conv", 256, 1, 7>>, <<"conv", 320, 7, 1>>,
            <<"conv", 320, 3, 3, 2, 2, "VALID">> >> >>)

inception4_stem ==
    << <<"conv", 32, 3, 3, 2, 2, "VALID">>,
       <<"conv", 32, 3, 3, 1, 1, "VALID">>,
       <<"conv", 64, 3, 3>>,
       inception_v4_sa, inception_v4_sb, inception_v4_sc >>

\* variant: the B module is repeated 6 times
inception4_stages_short ==
    Repeat(4, inception_v4_a)
    \o << inception_v4_ra(192, 224, 256, 384) >>
    \o Repeat(6, inception_v4_b)
    \o << inception_v4_rb >>
    \o Repeat(3, inception_v4_c)

inception4_stages ==
    Repeat(4, inception_v4_a)
    \o << inception_v4_ra(192, 224, 256, 384) >>
    \o Repeat(7, inception_v4_b)
    \o << inception_v4_rb >>
    \o Repeat(3, inception_v4_c)

inception4_head == << <<"spatial_mean">>, <<"dropout", 8>> >>

construct_inception4 == inception4_stem \o inception4_stages \o inception4_head


(***************************************************************************)
(* The state machine of one Inception object: construction, then one       *)
(* inference call that runs the build sequence layer by layer.             *)
(***************************************************************************)
Program(o) == IF o.model = "inception3"
              THEN construct_inception3(o.auxiliary)
              ELSE construct_inception4

StepName(op) == IF op[1] = "module" THEN op[2] ELSE op[1]

AtStep(kinds) ==
    /\ pc = "building"
    /\ step <= Len(Program(obj))
    /\ Program(obj)[step][1] \in kinds

CurrentOp == Program(obj)[step]

\* the outcome of one builder call: the next statement, or the exception
\* leaving inference
Advance(r) ==
    /\ UNCHANGED <<obj, result, recvars>>
    /\ IF r.ok
       THEN /\ cnn' = r.cnn
            /\ step' = step + 1
            /\ trace' = Append(trace, StepName(CurrentOp))
            /\ UNCHANGED <<pc, error>>
       ELSE /\ cnn' = Unwind(r.cnn)
            /\ pc' = "failed"
            /\ error' = r.err
            /\ UNCHANGED <<step, trace>>

NetInit ==
    /\ obj = NoObject
    /\ pc = "new"
    /\ cnn = NoBuilder
    /\ step = 0
    /\ trace = <<>>
    /\ module_sizes = <<>>
    /\ col_out = <<>>
    /\ result = NoTensor
    /\ error = ""

Construct ==
    /\ pc = "new"
    /\ \E image_size \in ImageSizes, data_format \in DataFormats,
          batch_size \in 1..MaxBatch, model \in Models :
            obj' = Inception_init(image_size, data_format, batch_size, model)
    /\ pc' = "ready"
    /\ UNCHANGED <<cnn, step, trace, module_sizes, col_out, result, error, recvars>>

\* inference on a known model: the builder is created on the images and
\* batch normalisation switched on
Inference ==
    /\ pc = "ready"
    /\ obj.model \in {"inception3", "inception4"}
    /\ LET images == [id |-> 1, dims |-> obj.image_shape]
       IN  cnn' = [ConvNetBuilder(images, 3, obj.data_format)
                      EXCEPT !.use_batch_norm = TRUE]
    /\ pc' = "building"
    /\ step' = 1
    /\ UNCHANGED <<obj, trace, module_sizes, col_out, result, error, recvars>>

\* inference on any other model: neither branch is taken, None is returned
InferenceNoModel ==
    /\ pc = "ready"
    /\ obj.model \notin {"inception3", "inception4"}
    /\ pc' = "done"
    /\ result' = NoTensor
    /\ UNCHANGED <<obj, cnn, step, trace, module_sizes, col_out, error, recvars>>

StepConv ==
    /\ AtStep({"conv"})
    /\ Advance(conv(cnn, CurrentOp))
    /\ UNCHANGED <<module_sizes, col_out>>

StepPool ==
    /\ AtStep({"mpool", "apool"})
    /\ Advance(pool(cnn, CurrentOp))
    /\ UNCHANGED <<module_sizes, col_out>>

StepModule ==
    /\ AtStep({"module"})
    /\ \E r \in {inception_module(cnn, CurrentOp[2], CurrentOp[3])} :
           /\ Advance(r)
           /\ col_out' = r.concat
           /\ module_sizes' = IF r.ok THEN Append(module_sizes, r.cnn.top_size)
                                      ELSE module_sizes

StepReshape ==
    /\ AtStep({"reshape"})
    /\ Advance(reshape(cnn, CurrentOp[2]))
    /\ UNCHANGED <<module_sizes, col_out>>

StepSpatialMean ==
    /\ AtStep({"spatial_mean"})
    /\ Advance(spatial_mean(cnn))
    /\ UNCHANGED <<module_sizes, col_out>>

StepDropout ==
    /\ AtStep({"dropout"})
    /\ Advance(dropout(cnn, CurrentOp[2]))
    /\ UNCHANGED <<module_sizes, col_out>>

\* return last
Return ==
    /\ pc = "building"
    /\ step = Len(Program(obj)) + 1
    /\ pc' = "done"
    /\ result' = cnn.top_layer
    /\ UNCHANGED <<obj, cnn, step, trace, module_sizes, col_out, error, recvars>>

\* a caller opting in to the auxiliary head before inference
EnableAuxiliary ==
    /\ pc = "ready"
    /\ ~obj.auxiliary
    /\ obj' = [obj EXCEPT !.auxiliary = TRUE]
    /\ UNCHANGED <<pc, cnn, step, trace, module_sizes, col_out, result, error, recvars>>

\* incept_v3_aux up to the with statement: the assertion, the capture of
\* the top tensor and the entry into the auxiliary scope
AuxEnter ==
    /\ AtStep({"aux_enter"})
    /\ Advance(IF cnn.aux_top_layer # NoTensor
               THEN Err(cnn, "AssertionError")
               ELSE enter_aux([cnn EXCEPT !.aux_top_layer = cnn.top_layer,
                                          !.aux_top_size  = cnn.top_size]))
    /\ UNCHANGED <<module_sizes, col_out>>

\* the end of the with block
AuxExit ==
    /\ AtStep({"aux_exit"})
    /\ Advance(Ok(exit_aux(cnn)))
    /\ UNCHANGED <<module_sizes, col_out>>

NetNext ==
    \/ Construct
    \/ Inference
    \/ InferenceNoModel
    \/ StepConv
    \/ StepPool
    \/ StepModule
    \/ StepReshape
    \/ StepSpatialMean
    \/ StepDropout
    \/ Return

(***************************************************************************)
(* tools/process_imagenet_data/check_record_data.py: the record decoder.   *)
(***************************************************************************)
Scalars == {"image/encoded", "image/class/label", "image/class/text",
            "image/height", "image/width"}

BBoxKeys == {"image/object/bbox/xmin", "image/object/bbox/ymin",
             "image/object/bbox/xmax", "image/object/bbox/ymax"}

FixedLenFeature(shape, default_value) ==
    [kind |-> "fixed", shape |-> shape, has_default |-> TRUE,
     default_value |-> default_value]

VarLenFeature == [kind |-> "varlen"]

\* variant: image/encoded is declared without a default
feature_map_required ==
    [k \in BBoxKeys |-> VarLenFeature] @@
    ( "image/encoded"     :> [kind |-> "fixed", shape |-> <<>>,
                              has_default |-> FALSE, default_value |-> ""] @@
      "image/class/label" :> FixedLenFeature(<<1>>, -1) @@
      "image/class/text"  :> FixedLenFeature(<<>>, "")  @@
      "image/height"      :> FixedLenFeature(<<1>>, -1) @@
      "image/width"       :> FixedLenFeature(<<1>>, -1) )

feature_map ==
    [k \in BBoxKeys |-> VarLenFeature] @@
    ( "image/encoded"     :> FixedLenFeature(<<>>, "")  @@
      "image/class/label" :> FixedLenFeature(<<1>>, -1) @@
      "image/class/text"  :> FixedLenFeature(<<>>, "")  @@
      "image/height"      :> FixedLenFeature(<<1>>, -1) @@
      "image/width"       :> FixedLenFeature(<<1>>, -1) )

\* a default fills the feature's shape: a scalar for [], a 1-vector for [1]
Filled(f) == IF f.shape = <<>> THEN f.default_value ELSE <<f.default_value>>

\* tf.parse_single_example on a record ex = [fixed, lists]
parse_single_example(ex, fmap) ==
    LET missing == {k \in DOMAIN fmap :
                       /\ fmap[k].kind = "fixed"
                       /\ k \notin DOMAIN ex.fixed
                       /\ ~fmap[k].has_default}
    IN  IF missing # {}
        THEN [ok |-> FALSE, features |-> <<>>]
        ELSE [ok |-> TRUE,
              features |->
                [k \in DOMAIN fmap |->
                    IF fmap[k].kind = "varlen"
                    THEN [values |-> IF k \in DOMAIN ex.lists
                                     THEN ex.lists[k] ELSE <<>>]
                    ELSE IF k \in DOMAIN ex.fixed THEN ex.fixed[k]
                    ELSE Filled(fmap[k])]]

\* tf.cast(..., tf.int32) of a vector of int64: a value in the int32 range
\* (labels are -1..1000) is kept, element by element
CastInt32(v) == [i \in 1..Len(v) |-> v[i]]

expand_dims0(t) == <<t>>

RECURSIVE concat0(_)
concat0(ts) == IF Len(ts) = 0 THEN <<>> ELSE ts[1] \o concat0(Tail(ts))

\* the rows handed to a concat along axis 0 agree in their other extent
Concatenable(ts) == \A i, j \in 1..Len(ts) : Len(ts[i][1]) = Len(ts[j][1])

\* tf.transpose(t, [0, 2, 1]) of a [1, rows, cols] tensor
transpose021(t) ==
    [k \in 1..Len(t) |->
        [j \in 1..Len(t[k][1]) |->
            [i \in 1..Len(t[k]) |-> t[k][i][j]]]]

\* the statements of parse_example_proto after the parse, on its features
ExampleBBox(features) ==
    LET xmin == expand_dims0(features["image/object/bbox/xmin"].values)
        ymin == expand_dims0(features["image/object/bbox/ymin"].values)
        xmax == expand_dims0(features["image/object/bbox/xmax"].values)
        ymax == expand_dims0(features["image/object/bbox/ymax"].values)
    IN  transpose021(expand_dims0(concat0(<<ymin, xmin, ymax, xmax>>)))

BBoxConcatenable(features) ==
    Concatenable(<<expand_dims0(features["image/object/bbox/ymin"].values),
                   expand_dims0(features["image/object/bbox/xmin"].values),
                   expand_dims0(features["image/object/bbox/ymax"].values),
                   expand_dims0(features["image/object/bbox/xmax"].values)>>)

\* the return statement of parse_example_proto
ExampleReturn(features) ==
    [image_buffer |-> features["image/encoded"],
     label        |-> CastInt32(features["image/class/label"]),
     text         |-> features["image/class/text"],
     height       |-> features["image/height"],
     width        |-> features["image/width"]]

\* the values a record of the training set carries (the docstring's example;
\* coordinates in tenths)
FieldValue ==
    "image/encoded"     :> "JPEG" @@
    "image/class/label" :> <<615>> @@
    "image/class/text"  :> "knee pad" @@
    "image/height"      :> <<462>> @@
    "image/width"       :> <<581>>

CoordPool ==
    "image/object/bbox/xmin" :> <<1, 3, 2>> @@
    "image/object/bbox/ymin" :> <<2, 4, 1>> @@
    "image/object/bbox/xmax" :> <<9, 5, 8>> @@
    "image/object/bbox/ymax" :> <<6, 7, 9>>

Examples ==
    { [fixed |-> [k \in present |-> FieldValue[k]],
       lists |-> [k \in BBoxKeys |-> SubSeq(CoordPool[k], 1, n[k])]] :
         present \in SUBSET Scalars, n \in [BBoxKeys -> 0..MaxBoxes] }

NoExample == [fixed |-> <<>>, lists |-> <<>>]

NotDecoded == [status |-> "idle", ret |-> <<>>]

RecIdle ==
    /\ example = NoExample
    /\ decoded = NotDecoded
    /\ bbox = <<>>

Init == NetInit /\ RecIdle

Next == NetNext

Spec == Init /\ [][Next]_vars

\* inference is a sequential call: it keeps running until it returns or raises
FairSpec == Spec /\ WF_vars(Next)

NextAux ==
    \/ NetNext
    \/ EnableAuxiliary
    \/ AuxEnter
    \/ AuxExit

SpecAux == Init /\ [][NextAux]_vars


\* dataset.map(parse_example_proto) on one record: the parse, the box
\* tensor (a local that is not returned) and the returned tuple
ParseExample ==
    /\ decoded.status = "idle"
    /\ example # NoExample
    /\ LET p == parse_single_example(example, feature_map)
       IN  IF ~p.ok
           THEN /\ decoded' = [status |-> "failed", ret |-> <<>>]
                /\ bbox' = <<>>
           ELSE /\ decoded' = [status |-> "ok", ret |-> ExampleReturn(p.features)]
                /\ bbox' = IF BBoxConcatenable(p.features)
                           THEN ExampleBBox(p.features) ELSE <<>>
    /\ UNCHANGED <<example, netvars>>

\* coordinate lists of different lengths: the concat cannot be evaluated;
\* whether the discarded box tensor is evaluated at all is up to the engine
ParseExampleConcatFails ==
    /\ decoded.status = "idle"
    /\ example # NoExample
    /\ LET p == parse_single_example(example, feature_map)
       IN  p.ok /\ ~BBoxConcatenable(p.features)
    /\ decoded' = [status |-> "failed", ret |-> <<>>]
    /\ bbox' = <<>>
    /\ UNCHANGED <<example, netvars>>

InitDecode ==
    /\ NetInit
    /\ example \in Examples
    /\ decoded = NotDecoded
    /\ bbox = <<>>

NextDecode == ParseExample \/ ParseExampleConcatFails

SpecDecode == InitDecode /\ [][NextDecode]_vars


(***************************************************************************)
(* Properties.                                                             *)
(***************************************************************************)
BatchSize == obj.image_shape[1]

Terminated == pc \in {"done", "failed"}

\* the build steps attempted so far: those applied and the one that raised
Attempted ==
    IF pc \notin {"building", "done", "failed"} \/ obj.model \notin inception_list
    THEN {}
    ELSE {k \in 1..Len(Program(obj)) : k <= step}

Applied ==
    IF pc \notin {"building", "done", "failed"} \/ obj.model \notin inception_list
    THEN {}
    ELSE {k \in 1..Len(Program(obj)) : k < step}

IsModule(op) == op[1] = "module"

\* C1: constructing an assembler with a model outside {inception3,
\* inception4} fails: no object exists for such a model, and no inference
\* call runs for it.
UnsupportedModelRejected ==
    /\ obj.constructed => obj.model \in inception_list
    /\ pc \in {"building", "done", "failed"} => obj.model \in inception_list

\* C2 (as claimed): an inception4 inference that returns yields, for every
\* batch size, a feature matrix with 2048 features per example.
V4FeatureLength2048 ==
    (pc = "done" /\ obj.model = "inception4") => result.dims = <<BatchSize, 2048>>

\* C2 (amended): an inception4 inference that returns yields, for every
\* batch size, a feature matrix with 1536 features per example: the channel
\* count after the last "C" module, spatial mean and dropout is 1536 and
\* does not depend on the batch dimension.
V4FeatureLength1536 ==
    (pc = "done" /\ obj.model = "inception4") =>
        /\ result.dims = <<BatchSize, 1536>>
        /\ cnn.top_size = 1536
        /\ Last(module_sizes) = 1536

V4FeatureWitness ==
    /\ pc = "done"
    /\ obj.model = "inception4"
    /\ BatchSize = 2
    /\ result.dims = <<2, 1536>>

\* C5: the channel count after a module is the sum over its columns, in
\* declared order, of each column's final channel count (a convolution sets
\* the count to its out_channels, a pool keeps the running count, which
\* starts at the module's input count, a share takes the count of the same
\* position of the previous column); the inception3 modules yield 256, 288,
\* 288, 768, 768, 768, 768, 768, 1280, 2048, 2048 from a 192-channel stem.
RECURSIVE ColChannels(_, _, _, _)
ColChannels(cols, c, l, in_size) ==
    IF l = 0 THEN in_size
    ELSE IF cols[c][l][1] = "conv" THEN cols[c][l][2]
    ELSE IF cols[c][l][1] = "share" THEN ColChannels(cols, c - 1, l, in_size)
    ELSE ColChannels(cols, c, l - 1, in_size)

ClaimedChannels(cols, in_size) ==
    [c \in 1..Len(cols) |-> ColChannels(cols, c, Len(cols[c]), in_size)]

V3Channels == <<256, 288, 288, 768, 768, 768, 768, 768, 1280, 2048, 2048>>

ModuleChannelsStep ==
    (AtStep({"module"}) /\ step' = step + 1) =>
        LET claimed == ClaimedChannels(CurrentOp[3], cnn.top_size)
        IN  /\ cnn'.top_size = SumSeq(claimed)
            /\ DimC(cnn.data_format, cnn'.top_layer) = SumSeq(claimed)
            /\ Len(col_out') = Len(claimed)
            /\ \A c \in 1..Len(claimed) :
                   DimC(cnn.data_format, col_out'[c]) = claimed[c]

V3ChannelSequence ==
    obj.model = "inception3" =>
        /\ IsPrefix(module_sizes, V3Channels)
        /\ (pc = "building" /\ step = Len(inception3_stem) + 1) => cnn.top_size = 192
        /\ pc = "done" => module_sizes = V3Channels

ModuleChannels == [] V3ChannelSequence /\ [][ModuleChannelsStep]_vars

ModuleChannelsWitness ==
    /\ pc = "done"
    /\ obj.model = "inception3"
    /\ module_sizes = V3Channels

\* C7 (as claimed): in every branch specification handed to the module
\* composer, no column starts with a share descriptor.
NoColumnStartsWithShare ==
    \A k \in Attempted :
        IsModule(Program(obj)[k]) =>
            \A c \in 1..Len(Program(obj)[k][3]) :
                Program(obj)[k][3][c][1][1] # "share"

\* C7 (amended): in every branch specification handed to the module
\* composer, a share descriptor never stands in the first column, always
\* has a position that exists in the column before it, and never ends a
\* column; columns after the first do start with share descriptors.
ValidShares(cols) ==
    \A c \in 1..Len(cols) :
        /\ Len(cols[c]) > 0
        /\ Last(cols[c])[1] # "share"
        /\ \A l \in 1..Len(cols[c]) :
               cols[c][l][1] = "share" => (c > 1 /\ l <= Len(cols[c - 1]))

SharesReferToPreviousColumn ==
    \A k \in Attempted :
        IsModule(Program(obj)[k]) => ValidShares(Program(obj)[k][3])

ShareFirstWitness ==
    \E k \in Applied :
        /\ IsModule(Program(obj)[k])
        /\ \E c \in 2..Len(Program(obj)[k][3]) :
               Program(obj)[k][3][c][1][1] = "share"

\* C8: an inception4 inference performs its build steps in exactly this
\* order: three stem convolutions, sa, sb, sc, the A module 4 times, ra, the
\* B module 7 times, rb, the C module 3 times, spatial mean, dropout; the
\* steps performed are at every moment a prefix of that order, a call that
\* returns has performed all of it, and every call terminates.
V4Order ==
    <<"conv", "conv", "conv", "incept_v4_sa", "incept_v4_sb", "incept_v4_sc",
      "incept_v4_a", "incept_v4_a", "incept_v4_a", "incept_v4_a",
      "incept_v4_ra",
      "incept_v4_b", "incept_v4_b", "incept_v4_b", "incept_v4_b",
      "incept_v4_b", "incept_v4_b", "incept_v4_b",
      "incept_v4_rb",
      "incept_v4_c", "incept_v4_c", "incept_v4_c",
      "spatial_mean", "dropout">>

V4OrderSoFar ==
    obj.model = "inception4" =>
        /\ IsPrefix(trace, V4Order)
        /\ pc = "done" => trace = V4Order

V4BuildOrder ==
    /\ [] V4OrderSoFar
    /\ (pc = "building" /\ obj.model = "inception4") ~> Terminated

V4BuildOrderWitness ==
    /\ pc = "done"
    /\ obj.model = "inception4"
    /\ trace = V4Order

\* C9: for a 299x299 input, at every module application of the inception3
\* and inception4 sequences all columns produce the same spatial height and
\* width, so every concatenation is well-formed and no module is skipped.
ColumnsAgree ==
    obj.image_size = 299 =>
        /\ col_out # <<>> => SameSpatial(obj.data_format, col_out)
        /\ pc # "failed"
        /\ (pc = "done" /\ obj.model = "inception3") => Len(module_sizes) = 11
        /\ (pc = "done" /\ obj.model = "inception4") => Len(module_sizes) = 19

ColumnsAgreeWitness ==
    /\ obj.image_size = 299
    /\ pc = "done"
    /\ Len(col_out) = 6
    /\ SameSpatial(obj.data_format, col_out)

\* C10: for inception3 with image size 299 and any batch size B, the tensor
\* reaching reshape([-1, 2048]) is B x 1 x 1 x 2048 and the returned feature
\* matrix has exactly B rows of length 2048.
V3ReshapeKeepsRows ==
    (obj.model = "inception3" /\ obj.image_size = 299) =>
        /\ (AtStep({"reshape"}) /\ step = Len(Program(obj))) =>
              /\ cnn.top_layer.dims = MkDims(obj.data_format, BatchSize, 1, 1, 2048)
              /\ Product(cnn.top_layer.dims) = BatchSize * 2048
        /\ pc = "done" => result.dims = <<BatchSize, 2048>>

V3ReshapeWitness ==
    /\ obj.model = "inception3"
    /\ obj.image_size = 299
    /\ pc = "done"
    /\ BatchSize = 2
    /\ result.dims = <<2, 2048>>


\* C6: once a switch_to_auxiliary scope has been entered and left, normally
\* or because an operation inside it failed, the builder's top tensor and
\* channel count are the primary tensor and channel count held at entry;
\* no inference call ends with the scope still open.
AuxBlock ==
    {k \in 1..Len(Program(obj)) :
        /\ k > Len(inception3_stem) + 8
        /\ k <= Len(inception3_stem) + 8 + Len(incept_v3_aux)}

AuxScopeStep ==
    /\ (cnn.scope # "aux" /\ cnn'.scope = "aux") =>
          /\ cnn'.saved_top_layer = cnn.top_layer
          /\ cnn'.saved_top_size = cnn.top_size
    /\ (cnn.scope = "aux" /\ cnn'.scope = "aux") =>
          /\ cnn'.saved_top_layer = cnn.saved_top_layer
          /\ cnn'.saved_top_size = cnn.saved_top_size
    /\ (cnn.scope = "aux" /\ cnn'.scope # "aux") =>
          /\ cnn'.top_layer = cnn.saved_top_layer
          /\ cnn'.top_size = cnn.saved_top_size

\* the scope was entered and the call has just left it
JustLeftAux ==
    /\ obj.auxiliary
    /\ cnn.aux_top_layer # NoTensor
    /\ \/ pc = "failed" /\ step \in AuxBlock
       \/ pc = "building" /\ Len(trace) > 0 /\ Last(trace) = "aux_exit"

AuxScopeClosed ==
    /\ Terminated => cnn.scope = "primary"
    /\ JustLeftAux =>
          /\ cnn.scope = "primary"
          /\ cnn.top_size = Last(module_sizes)
          /\ Len(cnn.top_layer.dims) = 4
          /\ DimC(cnn.data_format, cnn.top_layer) = Last(module_sizes)
          /\ cnn.top_layer.id <= cnn.aux_top_layer.id

AuxScopeRestores == [] AuxScopeClosed /\ [][AuxScopeStep]_vars

\* an operation inside the scope failed and the primary tensor is back
AuxFailureWitness ==
    /\ obj.auxiliary
    /\ pc = "failed"
    /\ step \in AuxBlock
    /\ cnn.aux_top_layer # NoTensor
    /\ cnn.scope = "primary"
    /\ cnn.top_layer = cnn.saved_top_layer

(***************************************************************************)
(* Properties of the record decoder.                                       *)
(***************************************************************************)
Absent == Scalars \ DOMAIN example.fixed

SameLengths ==
    \A j, k \in BBoxKeys : Len(example.lists[j]) = Len(example.lists[k])

\* C3 (as claimed): decoding a record in which a required field is absent
\* fails and returns no record.
MissingFieldFails ==
    (decoded.status # "idle" /\ Absent # {}) => decoded.status = "failed"

\* C3 (amended): an absent scalar field never makes the decode fail: a
\* record whose four coordinate lists have the same length always decodes,
\* and every decoded record carries the schema default ("" for the image
\* bytes and the text, -1 for label, height and width) for each absent
\* scalar field and the record's own value for each present one.
ReturnedAs ==
    "image/encoded"     :> "image_buffer" @@
    "image/class/label" :> "label" @@
    "image/class/text"  :> "text" @@
    "image/height"      :> "height" @@
    "image/width"       :> "width"

SchemaDefault ==
    "image/encoded"     :> "" @@
    "image/class/label" :> <<-1>> @@
    "image/class/text"  :> "" @@
    "image/height"      :> <<-1>> @@
    "image/width"       :> <<-1>>

MissingFieldGetsDefault ==
    /\ (decoded.status # "idle" /\ SameLengths) => decoded.status = "ok"
    /\ decoded.status = "ok" =>
          \A k \in Scalars :
              decoded.ret[ReturnedAs[k]] =
                  IF k \in Absent THEN SchemaDefault[k] ELSE example.fixed[k]

MissingFieldWitness ==
    /\ decoded.status = "ok"
    /\ "image/encoded" \in Absent
    /\ decoded.ret.image_buffer = ""

\* C4: for a record whose four coordinate lists have the same length n, the
\* decoded record contains the ordered list of n boxes whose i-th element
\* is (ymin[i], xmin[i], ymax[i], xmax[i]).
ExpectedBoxes ==
    [i \in 1..Len(example.lists["image/object/bbox/xmin"]) |->
        << example.lists["image/object/bbox/ymin"][i],
           example.lists["image/object/bbox/xmin"][i],
           example.lists["image/object/bbox/ymax"][i],
           example.lists["image/object/bbox/xmax"][i] >>]

BoxesReturned ==
    (decoded.status # "idle" /\ SameLengths) =>
        /\ decoded.status = "ok"
        /\ "bbox" \in DOMAIN decoded.ret
        /\ decoded.ret.bbox \in {ExpectedBoxes, <<ExpectedBoxes>>}

====
